---- MODULE Spec2Model ----
(***************************************************************************)
(* Model of the subscription-payments directory cache                      *)
(* (graph-subscriptions-api/src/network_subgraph.rs) and of the rate-tier  *)
(* lookup (graph-subscriptions-rs/src/subscription_tier.rs).               *)
(*                                                                         *)
(* Two specifications share the module:                                    *)
(*   Spec      the timer-driven refresher, the eventual it writes and the  *)
(*             readers of SubgraphDeployments;                             *)
(*   SpecTier  SubscriptionTiers, a pure lookup over a sorted Vec;         *)
(*   SpecParse the two parse functions applied to every response within    *)
(*             the bounds;                                                 *)
(*   SpecLive  Spec with the fairness of the runtime's scheduling.         *)
(***************************************************************************)
EXTENDS Integers, Sequences, FiniteSets, TLC

VARIABLES
    timer,        \* eventuals::timer: number of values written so far
    seen,         \* last timer value the pipe_async reader has consumed
    pc,           \* refresher task: "next" (awaiting a tick) | "query"
    locked,       \* the tokio Mutex around Client
    inflight,     \* number of executions of poll_subgraphs in progress
    upstream,     \* records the upstream holds for the cycle in progress
    response,     \* records paginated_query has aggregated so far
    poll_result,  \* what the last finished poll_subgraphs returned
    heap,         \* the Ptr<SubgraphDeploymentInputs> objects allocated
    published,    \* for each heap object, the page set it was built from
    sink,         \* the eventual's current value: index into heap, 0 = none
    rpc,          \* reader: "idle" | "await" (inside inputs.value().await)
    rop,          \* reader: operation called
    rarg,         \* reader: its argument
    rmap,         \* reader: Ptr obtained by the last completed call
    rret,         \* reader: value returned by the last completed call
    tier_input,   \* Vec<SubscriptionTier> given to SubscriptionTiers::new
    tiers,        \* SubscriptionTiers.0
    tier_op,      \* last lookup applied
    sub_rate,     \* its argument
    tier_result,  \* its result
    raw,          \* a response handed to the two parse functions
    parsed,       \* how far the parsing of raw has got: 0, 1 or 2 maps
    raw_d2s,      \* parse_deployment_subgraphs(&raw)
    raw_s2s       \* parse_subgraphs(&raw)

dvars == <<timer, seen, pc, locked, inflight, upstream, response, poll_result,
           heap, published, sink, rpc, rop, rarg, rmap, rret>>
tvars == <<tier_input, tiers, tier_op, sub_rate, tier_result>>
pvars == <<raw, parsed, raw_d2s, raw_s2s>>
vars == <<dvars, tvars, pvars>>

\* Option<T>: None is the empty sequence, Some(x) the one-element sequence
NoneV == <<>>
Some(x) == <<x>>

(***************************************************************************)
(* Bounds                                                                  *)
(***************************************************************************)
MaxTicks == 2
PageSize == 1
MaxTiers == 3
MaxRate == 3
MaxRecords == 2
MaxVersions == 2

(***************************************************************************)
(* subscription_tier.rs                                                    *)
(***************************************************************************)
Rates == 0..MaxRate
QpmValues == {10, 1000}

SubscriptionTier ==
    [payment_rate : Rates, queries_per_minute : QpmValues,
     monthly_query_limit : {NoneV}]

\* #[derive(Default)]: every field zero / None
DefaultTier ==
    [payment_rate |-> 0, queries_per_minute |-> 0, monthly_query_limit |-> NoneV]

TierInputs == UNION {[1..n -> SubscriptionTier] : n \in 0..MaxTiers}

\* insertion before the elements of equal key: the sort no longer stable
RECURSIVE InsertByKey_unstable(_, _)
InsertByKey_unstable(s, t) ==
    IF s = <<>> THEN <<t>>
    ELSE IF s[Len(s)].payment_rate < t.payment_rate THEN Append(s, t)
    ELSE Append(InsertByKey_unstable(SubSeq(s, 1, Len(s) - 1), t), s[Len(s)])

\* insertion of t into an ascending sequence after every element whose key is
\* <= its own: sort_by_key is a stable sort
RECURSIVE InsertByKey(_, _)
InsertByKey(s, t) ==
    IF s = <<>> THEN <<t>>
    ELSE IF s[Len(s)].payment_rate <= t.payment_rate THEN Append(s, t)
    ELSE Append(InsertByKey(SubSeq(s, 1, Len(s) - 1), t), s[Len(s)])

RECURSIVE sort_by_key(_)
sort_by_key(s) ==
    IF s = <<>> THEN <<>>
    ELSE InsertByKey(sort_by_key(SubSeq(s, 1, Len(s) - 1)), s[Len(s)])

new(input) == sort_by_key(input)

\* Iterator::find over hits, the positions that satisfy the predicate: the
\* first of them in sequence order, or None
find(s, hits) ==
    IF hits = {} THEN NoneV
    ELSE Some(s[CHOOSE i \in hits : \A j \in hits : i <= j])

\* the comparison turned round: the first tier at or above the rate
tier_for_rate_ge(ts, r) ==
    LET found == find(ts, {i \in 1..Len(ts) : ts[i].payment_rate >= r})
    IN  IF found = NoneV THEN DefaultTier ELSE found[1]

tier_for_rate(ts, r) ==
    LET found == find(ts, {i \in 1..Len(ts) : ts[i].payment_rate <= r})
    IN  IF found = NoneV THEN DefaultTier ELSE found[1]

\* the comparison made non-strict: a tier at the rate itself counts as next
find_next_tier_ge(ts, r) ==
    find(ts, {i \in 1..Len(ts) : ts[i].payment_rate >= r})

find_next_tier(ts, r) ==
    find(ts, {i \in 1..Len(ts) : ts[i].payment_rate > r})

(***************************************************************************)
(* network_subgraph.rs: data                                               *)
(***************************************************************************)
GraphAccount(a) == [id |-> a, image |-> NoneV, default_display_name |-> NoneV]

Subgraph(s, name) ==
    [id |-> s, owner |-> GraphAccount("a1"), display_name |-> Some(name),
     image |-> NoneV]

SubgraphVersion(sg) == [subgraph |-> sg]

\* a raw record: ipfsHash (renamed id) and its versions, in version order
SubgraphDeployment(d, sgs) ==
    [id |-> d, versions |-> [i \in 1..Len(sgs) |-> SubgraphVersion(sgs[i])]]

DeploymentIds == {"d1", "d2"}
SubgraphIds == {"s1", "s2"}

\* What the upstream may hold at the block a cycle queries: nothing; one
\* record; one record with two subgraphs; a record without versions; two
\* records with different subgraphs, with the same payload, with the same
\* DeploymentId, and with one SubgraphId carrying two payloads.
UpstreamPageSets ==
    { <<>>,
      <<SubgraphDeployment("d1", <<Subgraph("s1", "x")>>)>>,
      <<SubgraphDeployment("d1", <<Subgraph("s1", "x"), Subgraph("s2", "x")>>)>>,
      <<SubgraphDeployment("d2", <<>>)>>,
      <<SubgraphDeployment("d1", <<Subgraph("s1", "x")>>),
        SubgraphDeployment("d2", <<Subgraph("s2", "x")>>)>>,
      <<SubgraphDeployment("d1", <<Subgraph("s1", "x")>>),
        SubgraphDeployment("d2", <<Subgraph("s1", "x")>>)>>,
      <<SubgraphDeployment("d1", <<Subgraph("s1", "x")>>),
        SubgraphDeployment("d1", <<Subgraph("s2", "x")>>)>>,
      <<SubgraphDeployment("d1", <<Subgraph("s1", "x")>>),
        SubgraphDeployment("d2", <<Subgraph("s1", "y")>>)>> }

Readers == {"r1", "r2"}

\* The responses the parse functions are applied to: every sequence of at
\* most MaxRecords records, each with at most MaxVersions versions drawn from
\* RawSubgraphs (two SubgraphIds, one of them with two different payloads).
RawSubgraphs == {Subgraph("s1", "x"), Subgraph("s1", "y"), Subgraph("s2", "x")}
RawVersionLists == UNION {[1..n -> RawSubgraphs] : n \in 0..MaxVersions}
RawRecords == {SubgraphDeployment(d, sgs) : d \in DeploymentIds, sgs \in RawVersionLists}
RawPageSets == UNION {[1..n -> RawRecords] : n \in 0..MaxRecords}

\* HashMap: a function whose DOMAIN is the key set
EmptyMap == [k \in {} |-> NoneV]

\* an existing key keeps its earlier value (entry().or_insert)
Extend_first(m, n) ==
    [k \in DOMAIN m \cup DOMAIN n |-> IF k \in DOMAIN m THEN m[k] ELSE n[k]]

\* HashMap::insert / Extend: an existing key takes the later value
Extend(m, n) ==
    [k \in DOMAIN m \cup DOMAIN n |-> IF k \in DOMAIN n THEN n[k] ELSE m[k]]

\* the Subgraph rebuilt field by field from a version (lines 173-201, 218-246)
CopySubgraph(version) ==
    [id |-> version.subgraph.id,
     owner |-> [id |-> version.subgraph.owner.id,
                image |-> version.subgraph.owner.image,
                default_display_name |-> version.subgraph.owner.default_display_name],
     display_name |-> version.subgraph.display_name,
     image |-> version.subgraph.image]

\* Iterator::collect into a HashMap from a sequence of (key, value) pairs
RECURSIVE collect(_)
collect(pairs) ==
    IF pairs = <<>> THEN EmptyMap
    ELSE LET last == pairs[Len(pairs)]
         IN  Extend(collect(SubSeq(pairs, 1, Len(pairs) - 1)),
                    [k \in {last[1]} |-> last[2]])

\* a record whose Subgraph list equals that of an earlier record is taken for a
\* repetition of it and skipped
parse_deployment_subgraphs_merged(resp) ==
    LET subgraphs(i) ==
            [j \in 1..Len(resp[i].versions) |-> CopySubgraph(resp[i].versions[j])]
        kept == {i \in 1..Len(resp) : \A h \in 1..(i - 1) : subgraphs(h) # subgraphs(i)}
    IN  [d \in {resp[i].id : i \in kept} |->
            subgraphs(CHOOSE i \in kept :
                         resp[i].id = d /\ \A h \in kept : resp[h].id = d => h <= i)]

parse_deployment_subgraphs(resp) ==
    collect([i \in 1..Len(resp) |->
        <<resp[i].id,
          [j \in 1..Len(resp[i].versions) |-> CopySubgraph(resp[i].versions[j])]>>])

\* flatten of the per-record HashMaps followed by collect: the per-record
\* maps have distinct keys, so their iteration order does not show
RECURSIVE flatten_collect(_)
flatten_collect(maps) ==
    IF maps = <<>> THEN EmptyMap
    ELSE Extend(flatten_collect(SubSeq(maps, 1, Len(maps) - 1)), maps[Len(maps)])

\* the flatten left out: only the map of the last record is kept
parse_subgraphs_last_record(resp) ==
    IF resp = <<>> THEN EmptyMap
    ELSE collect([j \in 1..Len(resp[Len(resp)].versions) |->
            LET subgraph == CopySubgraph(resp[Len(resp)].versions[j])
            IN  <<subgraph.id, subgraph>>])

parse_subgraphs(resp) ==
    flatten_collect([i \in 1..Len(resp) |->
        collect([j \in 1..Len(resp[i].versions) |->
            LET subgraph == CopySubgraph(resp[i].versions[j])
            IN  <<subgraph.id, subgraph>>])])

\* SubgraphDeploymentInputs
SubgraphDeploymentInputs(d2s, s2s) ==
    [deployment_to_subgraphs |-> d2s, subgraph_id_to_subgraph |-> s2s]

\* results of poll_subgraphs
Ok == "Ok"
ErrTransport == "Err(transport)"
ErrEmpty == "Err(Discarding empty update (subgraph_deployments))"

(***************************************************************************)
(* Initial states                                                          *)
(***************************************************************************)
\* Client::create has returned: the timer task has not written yet, the pipe
\* awaits its first value, the eventual of snapshots holds nothing
DirectoryInit ==
    /\ timer = 0
    /\ seen = 0
    /\ pc = "next"
    /\ locked = FALSE
    /\ inflight = 0
    /\ upstream = <<>>
    /\ response = <<>>
    /\ poll_result = "none"
    /\ heap = <<>>
    /\ published = <<>>
    /\ sink = 0
    /\ rpc = [r \in Readers |-> "idle"]
    /\ rop = [r \in Readers |-> "none"]
    /\ rarg = [r \in Readers |-> "none"]
    /\ rmap = [r \in Readers |-> 0]
    /\ rret = [r \in Readers |-> <<>>]

TierInit(input) ==
    /\ tier_input = input
    /\ tiers = new(input)
    /\ tier_op = "none"
    /\ sub_rate = 0
    /\ tier_result = NoneV

ParseInit(resp) ==
    /\ raw = resp
    /\ parsed = 0
    /\ raw_d2s = EmptyMap
    /\ raw_s2s = EmptyMap

Init == DirectoryInit /\ TierInit(<<>>) /\ ParseInit(<<>>)

InitTier ==
    DirectoryInit /\ ParseInit(<<>>) /\ \E input \in TierInputs : TierInit(input)

InitParse ==
    DirectoryInit /\ TierInit(<<>>) /\ \E resp \in RawPageSets : ParseInit(resp)

(***************************************************************************)
(* The refresher: Client::create and Client::poll_subgraphs                *)
(***************************************************************************)
\* eventuals::timer(Duration::from_secs(30)): the timer task writes a new value
tick ==
    /\ timer < MaxTicks
    /\ timer' = timer + 1
    /\ UNCHANGED <<seen, pc, locked, inflight, upstream, response, poll_result,
                   heap, published, sink, rpc, rop, rarg, rmap, rret, tvars, pvars>>

\* the closure run for every tick without awaiting the previous future and
\* without taking the lock
pipe_async_detached ==
    /\ timer # seen
    /\ seen' = timer
    /\ locked' = locked
    /\ inflight' = inflight + 1
    /\ pc' = "query"
    /\ \E up \in UpstreamPageSets : upstream' = up
    /\ response' = <<>>
    /\ UNCHANGED <<timer, poll_result, heap, published, sink,
                   rpc, rop, rarg, rmap, rret, tvars, pvars>>

\* the timer values handed over one by one, as from a queue
pipe_async_queued ==
    /\ pc = "next"
    /\ timer # seen
    /\ ~locked
    /\ seen' = seen + 1
    /\ locked' = TRUE
    /\ inflight' = inflight + 1
    /\ pc' = "query"
    /\ \E up \in UpstreamPageSets : upstream' = up
    /\ response' = <<>>
    /\ UNCHANGED <<timer, poll_result, heap, published, sink,
                   rpc, rop, rarg, rmap, rret, tvars, pvars>>

\* pipe_async hands the closure the latest timer value once the previous
\* future has completed; the closure locks the (uncontended) mutex and
\* poll_subgraphs sends its first page request
pipe_async ==
    /\ pc = "next"
    /\ timer # seen
    /\ ~locked
    /\ seen' = timer
    /\ locked' = TRUE
    /\ inflight' = inflight + 1
    /\ pc' = "query"
    /\ \E up \in UpstreamPageSets : upstream' = up
    /\ response' = <<>>
    /\ UNCHANGED <<timer, poll_result, heap, published, sink,
                   rpc, rop, rarg, rmap, rret, tvars, pvars>>

\* paginated_query: the page that the request with cursor = last record of resp
\* returns, at most PageSize records
NextPage(up, resp) ==
    SubSeq(up, Len(resp) + 1,
           IF Len(resp) + PageSize < Len(up) THEN Len(resp) + PageSize ELSE Len(up))

\* paginated_query: a page shorter than requested ends the pagination
Exhausted(up, resp) == Len(NextPage(up, resp)) < PageSize

\* paginated_query received a full page and requests the next one
fetch_page ==
    /\ pc = "query"
    /\ ~Exhausted(upstream, response)
    /\ response' = response \o NextPage(upstream, response)
    /\ UNCHANGED <<timer, seen, pc, locked, inflight, upstream, poll_result,
                   heap, published, sink, rpc, rop, rarg, rmap, rret, tvars, pvars>>

\* the MutexGuard kept alive past the end of the closure's future
EndCycle_keeps_lock(result) ==
    /\ poll_result' = result
    /\ locked' = locked
    /\ inflight' = inflight - 1
    /\ pc' = "next"
    /\ upstream' = <<>>
    /\ response' = <<>>

\* the closure's future completes: the MutexGuard drops, pipe_async awaits
\* the next timer value
EndCycle(result) ==
    /\ poll_result' = result
    /\ locked' = FALSE
    /\ inflight' = inflight - 1
    /\ pc' = "next"
    /\ upstream' = <<>>
    /\ response' = <<>>

\* the error returned only after the pages received so far are written
poll_err_partial ==
    /\ pc = "query"
    /\ IF response = <<>>
       THEN UNCHANGED <<heap, published, sink>>
       ELSE /\ heap' = Append(heap, SubgraphDeploymentInputs(
                                        parse_deployment_subgraphs(response),
                                        parse_subgraphs(response)))
            /\ published' = Append(published, response)
            /\ sink' = Len(heap) + 1
    /\ EndCycle(ErrTransport)
    /\ UNCHANGED <<timer, seen, rpc, rop, rarg, rmap, rret, tvars, pvars>>

\* a page request fails: `.await?` returns the error, nothing is written
poll_err ==
    /\ pc = "query"
    /\ EndCycle(ErrTransport)
    /\ UNCHANGED <<timer, seen, heap, published, sink,
                   rpc, rop, rarg, rmap, rret, tvars, pvars>>

\* the is_empty test left out: the empty response is written like any other
poll_empty_publishes ==
    /\ pc = "query"
    /\ Exhausted(upstream, response)
    /\ response \o NextPage(upstream, response) = <<>>
    /\ heap' = Append(heap, SubgraphDeploymentInputs(
                                parse_deployment_subgraphs(<<>>),
                                parse_subgraphs(<<>>)))
    /\ published' = Append(published, <<>>)
    /\ sink' = Len(heap) + 1
    /\ EndCycle(Ok)
    /\ UNCHANGED <<timer, seen, rpc, rop, rarg, rmap, rret, tvars, pvars>>

\* the last page arrives and the aggregated response is empty
poll_empty ==
    /\ pc = "query"
    /\ Exhausted(upstream, response)
    /\ response \o NextPage(upstream, response) = <<>>
    /\ EndCycle(ErrEmpty)
    /\ UNCHANGED <<timer, seen, heap, published, sink,
                   rpc, rop, rarg, rmap, rret, tvars, pvars>>

\* subgraph_id_to_subgraph carried over from the previous snapshot instead of
\* being rebuilt from this cycle's response
poll_publish_mixed ==
    /\ pc = "query"
    /\ Exhausted(upstream, response)
    /\ LET resp == response \o NextPage(upstream, response)
           deployment_to_subgraphs == parse_deployment_subgraphs(resp)
           subgraph_id_to_subgraph ==
               IF sink = 0 THEN parse_subgraphs(resp)
               ELSE heap[sink].subgraph_id_to_subgraph
       IN  /\ resp # <<>>
           /\ heap' = Append(heap, SubgraphDeploymentInputs(
                                       deployment_to_subgraphs,
                                       subgraph_id_to_subgraph))
           /\ published' = Append(published, resp)
           /\ sink' = Len(heap) + 1
    /\ EndCycle(Ok)
    /\ UNCHANGED <<timer, seen, rpc, rop, rarg, rmap, rret, tvars, pvars>>

\* the eventual treated as a write-once cell: a value already present stays
poll_publish_write_once ==
    /\ pc = "query"
    /\ Exhausted(upstream, response)
    /\ LET resp == response \o NextPage(upstream, response)
       IN  /\ resp # <<>>
           /\ heap' = Append(heap, SubgraphDeploymentInputs(
                                       parse_deployment_subgraphs(resp),
                                       parse_subgraphs(resp)))
           /\ published' = Append(published, resp)
           /\ sink' = IF sink = 0 THEN Len(heap) + 1 ELSE sink
    /\ EndCycle(Ok)
    /\ UNCHANGED <<timer, seen, rpc, rop, rarg, rmap, rret, tvars, pvars>>

\* the maps of the current snapshot overwritten in place
poll_publish_in_place ==
    /\ pc = "query"
    /\ Exhausted(upstream, response)
    /\ LET resp == response \o NextPage(upstream, response)
           inputs == SubgraphDeploymentInputs(parse_deployment_subgraphs(resp),
                                              parse_subgraphs(resp))
       IN  /\ resp # <<>>
           /\ IF sink = 0
              THEN /\ heap' = Append(heap, inputs)
                   /\ published' = Append(published, resp)
                   /\ sink' = Len(heap) + 1
              ELSE /\ heap' = [heap EXCEPT ![sink] = inputs]
                   /\ published' = [published EXCEPT ![sink] = resp]
                   /\ sink' = sink
    /\ EndCycle(Ok)
    /\ UNCHANGED <<timer, seen, rpc, rop, rarg, rmap, rret, tvars, pvars>>

\* the last page arrives, the response is not empty: both maps are built from
\* it and written to the eventual as one new Ptr
poll_publish ==
    /\ pc = "query"
    /\ Exhausted(upstream, response)
    /\ LET resp == response \o NextPage(upstream, response)
           deployment_to_subgraphs == parse_deployment_subgraphs(resp)
           subgraph_id_to_subgraph == parse_subgraphs(resp)
       IN  /\ resp # <<>>
           /\ heap' = Append(heap, SubgraphDeploymentInputs(
                                       deployment_to_subgraphs,
                                       subgraph_id_to_subgraph))
           /\ published' = Append(published, resp)
           /\ sink' = Len(heap) + 1
    /\ EndCycle(Ok)
    /\ UNCHANGED <<timer, seen, rpc, rop, rarg, rmap, rret, tvars, pvars>>

(***************************************************************************)
(* Readers: SubgraphDeployments                                            *)
(***************************************************************************)
\* a caller enters deployment_subgraphs(deployment) and awaits inputs.value()
call_deployment_subgraphs(r, deployment) ==
    /\ rpc[r] = "idle"
    /\ rpc' = [rpc EXCEPT ![r] = "await"]
    /\ rop' = [rop EXCEPT ![r] = "deployment_subgraphs"]
    /\ rarg' = [rarg EXCEPT ![r] = deployment]
    /\ rret' = [rret EXCEPT ![r] = <<>>]
    /\ UNCHANGED <<timer, seen, pc, locked, inflight, upstream, response,
                   poll_result, heap, published, sink, rmap, tvars, pvars>>

\* a caller enters subgraph(subgraph_id) and awaits inputs.value()
call_subgraph(r, subgraph_id) ==
    /\ rpc[r] = "idle"
    /\ rpc' = [rpc EXCEPT ![r] = "await"]
    /\ rop' = [rop EXCEPT ![r] = "subgraph"]
    /\ rarg' = [rarg EXCEPT ![r] = subgraph_id]
    /\ rret' = [rret EXCEPT ![r] = <<>>]
    /\ UNCHANGED <<timer, seen, pc, locked, inflight, upstream, response,
                   poll_result, heap, published, sink, rmap, tvars, pvars>>

\* the readers made to go through the Mutex the refresher holds
value_ready_unlocked == sink # 0 /\ ~locked

\* Eventual::value(): ready once the eventual holds a value, and then yields
\* the current one. The writer lives in the pipe that runs forever, so the
\* eventual never closes and value() never yields Err(Closed).
value_ready == sink # 0

\* a missing key reported instead of defaulted
get_or_default_err(map, k) == IF k \in DOMAIN map THEN map[k] ELSE <<"error">>

\* map.deployment_to_subgraphs.get(deployment).cloned().unwrap_or_default()
get_or_default(map, k) == IF k \in DOMAIN map THEN map[k] ELSE <<>>

\* map.subgraph_id_to_subgraph.get(subgraph_id).cloned()
get(map, k) == IF k \in DOMAIN map THEN Some(map[k]) ELSE NoneV

\* the call returns the empty sequence at once when the eventual holds nothing
deployment_subgraphs_nowait(r) ==
    /\ rpc[r] = "await"
    /\ rop[r] = "deployment_subgraphs"
    /\ rmap' = [rmap EXCEPT ![r] = sink]
    /\ rret' = [rret EXCEPT ![r] =
                    IF sink = 0 THEN <<>>
                    ELSE get_or_default(heap[sink].deployment_to_subgraphs, rarg[r])]
    /\ rpc' = [rpc EXCEPT ![r] = "idle"]
    /\ UNCHANGED <<timer, seen, pc, locked, inflight, upstream, response,
                   poll_result, heap, published, sink, rop, rarg, tvars, pvars>>

\* inputs.value().await yields Ok(map); the lookup and the return follow
\* without another suspension point
deployment_subgraphs(r) ==
    /\ rpc[r] = "await"
    /\ rop[r] = "deployment_subgraphs"
    /\ value_ready
    /\ rmap' = [rmap EXCEPT ![r] = sink]
    /\ rret' = [rret EXCEPT ![r] =
                    get_or_default(heap[sink].deployment_to_subgraphs, rarg[r])]
    /\ rpc' = [rpc EXCEPT ![r] = "idle"]
    /\ UNCHANGED <<timer, seen, pc, locked, inflight, upstream, response,
                   poll_result, heap, published, sink, rop, rarg, tvars, pvars>>

subgraph(r) ==
    /\ rpc[r] = "await"
    /\ rop[r] = "subgraph"
    /\ value_ready
    /\ rmap' = [rmap EXCEPT ![r] = sink]
    /\ rret' = [rret EXCEPT ![r] =
                    get(heap[sink].subgraph_id_to_subgraph, rarg[r])]
    /\ rpc' = [rpc EXCEPT ![r] = "idle"]
    /\ UNCHANGED <<timer, seen, pc, locked, inflight, upstream, response,
                   poll_result, heap, published, sink, rop, rarg, tvars, pvars>>

Next ==
    \/ tick
    \/ pipe_async
    \/ fetch_page
    \/ poll_err
    \/ poll_empty
    \/ poll_publish
    \/ \E r \in Readers, d \in DeploymentIds : call_deployment_subgraphs(r, d)
    \/ \E r \in Readers, s \in SubgraphIds : call_subgraph(r, s)
    \/ \E r \in Readers : deployment_subgraphs(r)
    \/ \E r \in Readers : subgraph(r)

Spec == Init /\ [][Next]_vars

\* What the runtime's scheduling guarantees: a pending timer value is taken
\* up by the idle pipe, a page request in progress completes one way or
\* another, and a reader whose value() is ready is resumed.
Fairness ==
    /\ WF_vars(pipe_async)
    /\ WF_vars(fetch_page \/ poll_err \/ poll_empty \/ poll_publish)
    /\ \A r \in Readers : WF_vars(deployment_subgraphs(r) \/ subgraph(r))

SpecLive == Spec /\ Fairness

(***************************************************************************)
(* SubscriptionTiers: the lookups applied to a constructed tier list       *)
(***************************************************************************)
apply_tier_for_rate(r) ==
    /\ tier_op' = "tier_for_rate"
    /\ sub_rate' = r
    /\ tier_result' = tier_for_rate(tiers, r)
    /\ UNCHANGED <<tier_input, tiers, dvars, pvars>>

apply_find_next_tier(r) ==
    /\ tier_op' = "find_next_tier"
    /\ sub_rate' = r
    /\ tier_result' = find_next_tier(tiers, r)
    /\ UNCHANGED <<tier_input, tiers, dvars, pvars>>

NextTier ==
    \/ \E r \in Rates : apply_tier_for_rate(r)
    \/ \E r \in Rates : apply_find_next_tier(r)

SpecTier == InitTier /\ [][NextTier]_vars

(***************************************************************************)
(* The parse functions applied to a response, in the order of lines        *)
(* 151-152 and 351-352                                                     *)
(***************************************************************************)
apply_parse_deployment_subgraphs ==
    /\ parsed = 0
    /\ raw_d2s' = parse_deployment_subgraphs(raw)
    /\ parsed' = 1
    /\ UNCHANGED <<raw, raw_s2s, dvars, tvars>>

apply_parse_subgraphs ==
    /\ parsed = 1
    /\ raw_s2s' = parse_subgraphs(raw)
    /\ parsed' = 2
    /\ UNCHANGED <<raw, raw_d2s, dvars, tvars>>

NextParse ==
    \/ apply_parse_deployment_subgraphs
    \/ apply_parse_subgraphs

SpecParse == InitParse /\ [][NextParse]_vars

(***************************************************************************)
(* Properties of SubscriptionTiers (checked under SpecTier)                *)
(***************************************************************************)
AtOrBelow == {i \in 1..Len(tiers) : tiers[i].payment_rate <= sub_rate}
Above == {i \in 1..Len(tiers) : tiers[i].payment_rate > sub_rate}

\* C1: tier_for_rate(r) returns the tier with the highest payment_rate among
\* the tiers whose payment_rate <= r, and the default tier when there is none.
C1_HighestTierAtOrBelow ==
    tier_op = "tier_for_rate" =>
        IF AtOrBelow = {} THEN tier_result = DefaultTier
        ELSE \E i \in AtOrBelow :
                /\ tier_result = tiers[i]
                /\ \A j \in AtOrBelow : tiers[j].payment_rate <= tiers[i].payment_rate

\* C9: find_next_tier(r) returns the tier with the lowest payment_rate among
\* the tiers whose payment_rate > r, and none when r is at or above the
\* highest payment_rate or the list is empty.
C9_LowestTierAbove ==
    tier_op = "find_next_tier" =>
        IF Above = {} THEN tier_result = NoneV
        ELSE /\ Len(tier_result) = 1
             /\ \E i \in Above :
                    /\ tier_result[1] = tiers[i]
                    /\ \A j \in Above : tiers[i].payment_rate <= tiers[j].payment_rate

\* find_next_tier picked the lowest of several tiers above the rate, from a
\* list that was given out of order
C9_Witness ==
    /\ tier_op = "find_next_tier"
    /\ tier_result # NoneV
    /\ tier_input # tiers
    /\ \E i \in Above : tiers[i].payment_rate > tier_result[1].payment_rate

\* C10: tier_for_rate is monotonic non-decreasing: for r1 <= r2 the
\* payment_rate of tier_for_rate(r1) is <= that of tier_for_rate(r2).
C10_Monotonic ==
    tier_op = "tier_for_rate" =>
        \A r2 \in Rates :
            sub_rate <= r2 =>
                tier_result.payment_rate <= tier_for_rate(tiers, r2).payment_rate

\* a rate below every tier got the default tier while a higher rate gets a
\* tier with a positive payment_rate
C10_Witness ==
    /\ tier_op = "tier_for_rate"
    /\ tiers # <<>>
    /\ tier_result = DefaultTier
    /\ \E r2 \in Rates :
          sub_rate < r2 /\ tier_for_rate(tiers, r2).payment_rate > 0

\* the tiers of seq s whose payment_rate is v, in the order of s
WithRate(s, v) ==
    LET Test(t) == t.payment_rate = v
    IN  SelectSeq(s, Test)

\* C19: new keeps every input tier, orders the tiers ascending by
\* payment_rate and keeps tiers of equal payment_rate in insertion order, so
\* the tier a lookup returns is the first-inserted of those sharing its rate.
C19_StableAscending ==
    /\ Len(tiers) = Len(tier_input)
    /\ \A i \in 1..(Len(tiers) - 1) :
           tiers[i].payment_rate <= tiers[i + 1].payment_rate
    /\ \A v \in Rates : WithRate(tiers, v) = WithRate(tier_input, v)
    /\ (tier_op = "tier_for_rate" /\ AtOrBelow # {}) =>
           tier_result = WithRate(tier_input, tier_result.payment_rate)[1]
    /\ (tier_op = "find_next_tier" /\ tier_result # NoneV) =>
           tier_result[1] = WithRate(tier_input, tier_result[1].payment_rate)[1]

\* the rate find_next_tier selected is shared by two different tiers that
\* were given after a tier of a higher rate
C19_Witness ==
    /\ tier_op = "find_next_tier"
    /\ tier_result # NoneV
    /\ Len(tier_input) = 3
    /\ tier_input[1].payment_rate > tier_input[2].payment_rate
    /\ tier_input[2].payment_rate = tier_input[3].payment_rate
    /\ tier_input[2] # tier_input[3]
    /\ tier_result[1] = tier_input[2]

(***************************************************************************)
(* Properties of the directory cache (checked under Spec)                  *)
(***************************************************************************)
\* the snapshot the eventual currently holds
Current == heap[sink]

\* a poll cycle completes in this step
CycleEnds == pc = "query" /\ pc' = "next"

\* reader r returns from its call in this step
Returns(r) == rpc[r] = "await" /\ rpc'[r] = "idle"

\* C2: after a successful poll cycle the published snapshot is cross-map
\* consistent: every SubgraphId that is a key of subgraph_id_to_subgraph is
\* listed under the DeploymentId of the raw record that carried it, and every
\* Subgraph listed in deployment_to_subgraphs is a key of
\* subgraph_id_to_subgraph, whatever the page set.
C2_CrossMapConsistent ==
    sink # 0 =>
        LET pages == published[sink]
            d2s == Current.deployment_to_subgraphs
            s2s == Current.subgraph_id_to_subgraph
        IN  /\ \A i \in 1..Len(pages) : \A j \in 1..Len(pages[i].versions) :
                  LET sid == pages[i].versions[j].subgraph.id
                  IN  sid \in DOMAIN s2s =>
                          /\ pages[i].id \in DOMAIN d2s
                          /\ \E k \in 1..Len(d2s[pages[i].id]) :
                                 d2s[pages[i].id][k].id = sid
            /\ \A d \in DOMAIN d2s : \A k \in 1..Len(d2s[d]) :
                  d2s[d][k].id \in DOMAIN s2s

\* C3: a poll cycle whose aggregated page set is empty returns the "discarded
\* empty update" error and leaves the current snapshot as it was.
C3_EmptyCycleKeepsSnapshot ==
    [][(CycleEnds /\ upstream = <<>> /\ poll_result' # ErrTransport) =>
           /\ poll_result' = ErrEmpty
           /\ sink' = sink
           /\ heap' = heap]_vars

\* an empty cycle has ended while a snapshot was current
C3_Witness ==
    /\ poll_result = ErrEmpty
    /\ sink # 0
    /\ pc = "next"

\* C4: a poll cycle whose page retrieval fails returns an error without
\* publishing, and whatever is published was built from the complete page set
\* of its cycle, never from a part of it.
C4_FailedCycleKeepsSnapshot ==
    [][/\ (CycleEnds /\ poll_result' = ErrTransport) =>
              (sink' = sink /\ heap' = heap)
       /\ sink' # sink =>
              /\ CycleEnds
              /\ poll_result' = Ok
              /\ heap'[sink'] = SubgraphDeploymentInputs(
                                    parse_deployment_subgraphs(upstream),
                                    parse_subgraphs(upstream))]_vars

\* a cycle has failed while a snapshot was current
C4_Witness ==
    /\ poll_result = ErrTransport
    /\ sink # 0
    /\ pc = "next"

\* C5: the two maps of a snapshot a reader has observed were both built from
\* the page set of one and the same poll cycle.
C5_MapsOfOneCycle ==
    \A r \in Readers :
        rmap[r] # 0 =>
            /\ heap[rmap[r]].deployment_to_subgraphs
                   = parse_deployment_subgraphs(published[rmap[r]])
            /\ heap[rmap[r]].subgraph_id_to_subgraph
                   = parse_subgraphs(published[rmap[r]])

\* two readers hold the snapshots of two different cycles, built from
\* different page sets
C5_Witness ==
    \E r1, r2 \in Readers :
        /\ rmap[r1] # 0
        /\ rmap[r2] # 0
        /\ rmap[r1] # rmap[r2]
        /\ published[rmap[r1]] # published[rmap[r2]]

\* C6: at most one poll cycle is in flight at any time, whatever the timing of
\* the timer ticks.
C6_OnePollInFlight ==
    /\ inflight <= 1
    /\ inflight = 1 <=> pc = "query"
    /\ locked <=> pc = "query"

\* the timer has fired again while a cycle is in flight
C6_Witness ==
    /\ inflight = 1
    /\ timer # seen
    /\ response # <<>>

\* C7: a read issued before any publish stays suspended until the first
\* publish; once a snapshot exists a read can always complete, and it returns
\* the latest published snapshot.
C7_ReadWaitsForFirstPublish ==
    /\ [][\A r \in Readers :
              Returns(r) => (sink # 0 /\ rmap'[r] = sink /\ sink = Len(heap))]_vars
    /\ [](\A r \in Readers :
              (rpc[r] = "await" /\ sink # 0) =>
                  ENABLED (deployment_subgraphs(r) \/ subgraph(r)))

\* one reader has returned with the latest of two published snapshots while
\* the other is inside its call
C7_Witness ==
    \E r1, r2 \in Readers :
        /\ rpc[r1] = "idle"
        /\ rmap[r1] = sink
        /\ sink = 2
        /\ rpc[r2] = "await"

\* C8 as stated: a call made while no snapshot is available returns (the
\* empty sequence or none) instead of staying suspended.
C8_ReturnsWithoutSnapshot ==
    \A r \in Readers :
        (rpc[r] = "await" /\ sink = 0) =>
            ENABLED (deployment_subgraphs(r) \/ subgraph(r))

\* C8 amended: a call returns only once a snapshot exists; deployment_subgraphs
\* then returns the list stored for the deployment or the empty sequence when
\* the deployment is unknown, subgraph returns the stored Subgraph or none when
\* the subgraph is unknown; neither returns an error.
C8_AbsenceIsEmptyOrNone ==
    [][\A r \in Readers :
           Returns(r) =>
               /\ sink # 0
               /\ rop[r] = "deployment_subgraphs" =>
                      IF rarg[r] \in DOMAIN Current.deployment_to_subgraphs
                      THEN rret'[r] = Current.deployment_to_subgraphs[rarg[r]]
                      ELSE rret'[r] = <<>>
               /\ rop[r] = "subgraph" =>
                      IF rarg[r] \in DOMAIN Current.subgraph_id_to_subgraph
                      THEN rret'[r] = <<Current.subgraph_id_to_subgraph[rarg[r]]>>
                      ELSE rret'[r] = NoneV]_vars

\* one reader got the empty sequence for an unknown deployment, another got
\* none for an unknown subgraph
C8_Witness ==
    \E r1, r2 \in Readers :
        /\ rpc[r1] = "idle" /\ rmap[r1] # 0
        /\ rop[r1] = "deployment_subgraphs"
        /\ rarg[r1] \notin DOMAIN heap[rmap[r1]].deployment_to_subgraphs
        /\ rret[r1] = <<>>
        /\ rpc[r2] = "idle" /\ rmap[r2] # 0
        /\ rop[r2] = "subgraph"
        /\ rarg[r2] \notin DOMAIN heap[rmap[r2]].subgraph_id_to_subgraph
        /\ rret[r2] = NoneV

\* C13: a publish replaces the current snapshot and is what every later read
\* returns, so no read returns a snapshot older than a publish that preceded
\* it; and every reader waiting while a snapshot exists is eventually
\* resumed with a snapshot.
C13_PublishReachesReaders ==
    /\ [][/\ sink' >= sink
          /\ (CycleEnds /\ poll_result' = Ok) =>
                 (sink' = Len(heap') /\ sink' > sink)
          /\ \A r \in Readers : Returns(r) => rmap'[r] = sink]_vars
    /\ \A r \in Readers :
           (rpc[r] = "await" /\ sink # 0) ~> (rpc[r] = "idle" /\ rmap[r] # 0)

\* both readers have been resumed with the first snapshot
C13_Witness ==
    /\ sink = 1
    /\ \A r \in Readers : rpc[r] = "idle" /\ rmap[r] = 1 /\ rret[r] # <<>>

\* the timer fires in this step
Ticks == timer' # timer

\* a poll cycle starts in this step
CycleStarts == pc = "next" /\ pc' = "query"

C15_PollDoesNotBlockReaders ==
    /\ [](\A r \in Readers :
              (pc = "query" /\ sink # 0 /\ rpc[r] = "await") =>
                  ENABLED (deployment_subgraphs(r) \/ subgraph(r)))
    /\ [][pc = "query" =>
              /\ pc' = "query" => (sink' = sink /\ heap' = heap)
              /\ \A r \in Readers :
                     Returns(r) => (rmap'[r] = sink /\ pc' = "query" /\ locked')]_vars

\* with the second cycle fetching pages, one reader has returned the first
\* snapshot and the other is inside its call
C15_Witness ==
    /\ pc = "query"
    /\ seen = 2
    /\ response # <<>>
    /\ sink = 1
    /\ \E r1, r2 \in Readers :
          /\ rpc[r1] = "idle" /\ rmap[r1] = 1 /\ rret[r1] # <<>>
          /\ rpc[r2] = "await"

\* C17: every poll cycle ends, whatever its outcome, with the refresher idle
\* and the lock released; a cycle that neither fails nor finds the response
\* empty publishes it; and a tick pending while the refresher is idle, as
\* after a failed cycle, starts a new cycle.
C17_CycleEndsAndRetries ==
    /\ [][CycleEnds =>
              /\ ~locked' /\ inflight' = 0
              /\ poll_result' \in {Ok, ErrEmpty, ErrTransport}
              /\ (upstream # <<>> /\ poll_result' # ErrTransport) =>
                     /\ poll_result' = Ok
                     /\ sink' = Len(heap')
                     /\ published'[sink'] = upstream]_vars
    /\ (pc = "query") ~> (pc = "next" /\ ~locked)
    /\ (pc = "next" /\ timer # seen) ~> (pc = "query" /\ seen = timer)

\* a cycle has failed and the next one is running
C17_Witness ==
    /\ pc = "query"
    /\ locked
    /\ poll_result = ErrTransport
    /\ seen = timer

\* C18: the current snapshot, if there is one, was built from a non-empty page
\* set and has at least one deployment; the current snapshot changes only
\* when a cycle ends in success over a non-empty page set.
C18_SnapshotFromNonEmptyCycle ==
    /\ [](sink # 0 =>
              /\ published[sink] # <<>>
              /\ DOMAIN Current.deployment_to_subgraphs # {})
    /\ [][sink' # sink =>
              (CycleEnds /\ poll_result' = Ok /\ upstream # <<>>)]_vars

\* a second successful cycle has superseded the snapshot of the first
C18_Witness ==
    /\ pc = "next"
    /\ sink = 2
    /\ published[1] # published[2]

\* C20: a published snapshot is never changed, and the snapshot a reader
\* obtains is never older than the one it obtained before.
C20_SnapshotsImmutable ==
    [][/\ Len(heap') >= Len(heap)
       /\ \A i \in 1..Len(heap) : heap'[i] = heap[i]
       /\ \A r \in Readers : rmap'[r] >= rmap[r]]_vars

\* one reader still holds the first snapshot, the other has moved on to the
\* second, and the two snapshots differ
C20_Witness ==
    /\ sink = 2
    /\ heap[1] # heap[2]
    /\ \E r1, r2 \in Readers : rmap[r1] = 1 /\ rmap[r2] = 2

(***************************************************************************)
(* Properties of the parse functions (checked under SpecParse)             *)
(***************************************************************************)
\* the places <<record, version>> of raw at which a Subgraph occurs
Occurrences ==
    UNION {{<<i, j>> : j \in 1..Len(raw[i].versions)} : i \in 1..Len(raw)}

At(o) == raw[o[1]].versions[o[2]].subgraph

OccurrencesOf(sid) == {o \in Occurrences : At(o).id = sid}

\* o comes before p in iteration order: records in page order, versions in
\* version order
Before(o, p) == o[1] < p[1] \/ (o[1] = p[1] /\ o[2] <= p[2])

\* C11: the keys of subgraph_id_to_subgraph are exactly the distinct
\* SubgraphIds occurring in the versions of the raw records; a SubgraphId that
\* occurs once is mapped to the Subgraph of that version; and one record
\* {D1, [S1]} gives deployment_subgraphs(D1) = [S1], subgraph(S1) = Some(S1).
C11_OneEntryPerSubgraphId ==
    parsed = 2 =>
        /\ DOMAIN raw_s2s = {At(o).id : o \in Occurrences}
        /\ \A o \in Occurrences :
               OccurrencesOf(At(o).id) = {o} => raw_s2s[At(o).id] = At(o)
        /\ (Len(raw) = 1 /\ Len(raw[1].versions) = 1) =>
               /\ get_or_default(raw_d2s, raw[1].id) = <<At(<<1, 1>>)>>
               /\ get(raw_s2s, At(<<1, 1>>).id) = Some(At(<<1, 1>>))

\* two records with one SubgraphId each, both parsed into their own entry
C11_Witness ==
    /\ parsed = 2
    /\ Len(raw) = 2
    /\ Cardinality(DOMAIN raw_s2s) = 2
    /\ \A o \in Occurrences : OccurrencesOf(At(o).id) = {o}
    /\ raw[1].versions # <<>>

\* the DeploymentIds of the raw records are pairwise different
DistinctDeployments ==
    \A i, h \in 1..Len(raw) : raw[i].id = raw[h].id => i = h

\* C12: when the raw records have pairwise different DeploymentIds,
\* deployment_to_subgraphs has exactly one key per record, mapped to that
\* record's Subgraphs in version order; records with identical Subgraph
\* payloads keep their own entries.
C12_OneEntryPerDeployment ==
    (parsed >= 1 /\ DistinctDeployments) =>
        /\ DOMAIN raw_d2s = {raw[i].id : i \in 1..Len(raw)}
        /\ Cardinality(DOMAIN raw_d2s) = Len(raw)
        /\ \A i \in 1..Len(raw) :
               raw_d2s[raw[i].id] =
                   [j \in 1..Len(raw[i].versions) |-> raw[i].versions[j].subgraph]

\* two records with different DeploymentIds and the same two Subgraphs, in
\* the same order, have been parsed
C12_Witness ==
    /\ parsed >= 1
    /\ Len(raw) = 2
    /\ raw[1].id # raw[2].id
    /\ raw[1].versions = raw[2].versions
    /\ Len(raw[1].versions) = 2
    /\ raw[1].versions[1] # raw[1].versions[2]
    /\ raw_d2s[raw[1].id] = raw_d2s[raw[2].id]

\* C16: when a SubgraphId occurs more than once, the entry of
\* subgraph_id_to_subgraph is the Subgraph of its last occurrence in iteration
\* order.
C16_LastOccurrenceWins ==
    parsed = 2 =>
        \A o \in Occurrences :
            (\A p \in OccurrencesOf(At(o).id) : Before(p, o)) =>
                (At(o).id \in DOMAIN raw_s2s /\ raw_s2s[At(o).id] = At(o))

\* one SubgraphId occurs with two payloads in two records, and the later
\* payload is the one stored
C16_Witness ==
    /\ parsed = 2
    /\ \E o, p \in Occurrences :
          /\ o[1] < p[1]
          /\ At(o).id = At(p).id
          /\ At(o) # At(p)
          /\ raw_s2s[At(o).id] = At(p)

====
